---- MODULE Spec2Model ----
(***************************************************************************)
(* Model of the two host lifecycles (MoonrakerHost, BambuHost) with their  *)
(* identity bootstrap, and of the installer's Updater.                     *)
(*                                                                         *)
(* Python strings are sequences of one-character strings.  A value that    *)
(* may be None is an option: None is the empty tuple, a present string s   *)
(* is the one-element tuple <<s>>.                                         *)
(***************************************************************************)
EXTENDS Integers, Sequences, FiniteSets, TLC

\* ------------------------------------------------------------------ bounds
\* Longest identifier / key string found in the store before the first boot.
MaxLen == 3
\* Number of process starts (boots) of one device that are followed.
MaxBoots == 2
\* Largest number of entries in the systemd service directory.
MaxEntries == 3

\* ------------------------------------------------------ identity validator
\* Length of the identifier token the relay expects.
PrinterIdLength == 2
\* Shortest private key the validator accepts.
PrivateKeyMinLength == 2

Alphabet == {"a", "b"}

None == <<>>
Some(s) == <<s>>

StringsUpTo(n) == UNION {[1..k -> Alphabet] : k \in 0..n}

\* Everything a read of a store field can return.
Values == {None} \cup {Some(s) : s \in StringsUpTo(MaxLen)}

IsPrinterIdValid(v) == v # None /\ Len(v[1]) = PrinterIdLength

IsPrivateKeyValid(v) == v # None /\ Len(v[1]) >= PrivateKeyMinLength

\* The values one call of the generator can return (a random token).
GeneratePrinterId == {Some(s) : s \in [1..PrinterIdLength -> Alphabet]}

GeneratePrivateKey == {Some(s) : s \in [1..PrivateKeyMinLength -> Alphabet]}

\* ----------------------------------------------------------- identity store
GetPrinterId(st) == st.id

GetPrivateKey(st) == st.key

SetPrinterId(st, v) == [st EXCEPT !.id = v]

SetPrivateKey(st, v) == [st EXCEPT !.key = v]

\* -------------------------------------------------------------------- state
VARIABLES
    host,        \* "moonraker" or "bambu": which host this device runs
    boot,        \* number of the current process start
    pc,          \* position of the process in __init__ / RunBlocking
    store,       \* the persisted identity store: [id, key]
    startStore,  \* history: the store as the current boot found it
    printerId,   \* local printerId (DoFirstTimeSetupIfNeeded, then RunBlocking)
    privateKey,  \* local privateKey
    isFirstRun,  \* MoonrakerHost.DoFirstTimeSetupIfNeeded's local flag
    gens,        \* history: values generated in this boot, in order
    writes,      \* history: successful store writes of this boot, in order
    hookCalls,   \* history: EnsureAllowedServicesFile calls of this boot
    setupDone,   \* history: DoFirstTimeSetupIfNeeded returned in this boot
    subsys,      \* index of the next supporting subsystem to initialise
    relay,       \* the relay client: [started, running, printerId, privateKey]
    failure,     \* history: the step that raised in this boot, or "none"
    sentry,      \* history: Sentry.Exception calls of this boot
    printed,     \* history: the constructor printed its failure
    flushed,     \* history: logging.shutdown was attempted in this boot
    outcome,     \* "running", "returned" (RunBlocking returned), "raised"
    relayRaised, \* history: the class of what oe.RunBlocking() raised, or "none"
    \* ---- Updater.DoUpdate
    dirList,          \* what os.listdir returns for the service directory
    upc,              \* position of DoUpdate, "Idle" when no update runs
    fileAndDirList,   \* the sorted listing
    foundOeServices,  \* the entries taken for services of this product
    restarts,         \* history: shell commands issued, in order
    returnCodes,      \* history: the return code of each command issued
    warned,           \* history: services whose restart was warned about
    pluginVersionStr, \* the version string of the closing report
    reported,         \* history: "OctoEverywhere Update Successful" was logged
    updResult,        \* what DoUpdate returned (None: it has no return statement)
    \* ---- the StatusChangeHandler callbacks of a connected host
    calls,            \* history: the OnPrimaryConnectionEstablished calls
    warnings,         \* history: the link warnings logged, [call, url]
    startRequests,    \* history: octoKeys given to StartRunningIfNotAlready
    clientRunning,    \* MoonrakerClient: its run thread has been started
    clientStarts,     \* history: how many times that thread was started
    \* ---- Updater.PlaceUpdateScriptInRoot
    repoRoot,         \* context.RepoRootFolder
    homeFile,         \* ~/update-octoeverywhere.sh: None or <<[content, mode]>>
    spc,              \* position of PlaceUpdateScriptInRoot, "Idle" when not called
    stMode,           \* st.st_mode as read by os.stat
    placeResult,      \* what PlaceUpdateScriptInRoot did: "none", "True", "False", "raised"
    firstStore,       \* history: the store as the device's first boot found it
    hookRuns          \* history: calls of EnsureAllowedServicesFile over all boots

hostVars == <<host, boot, pc, store, startStore, printerId, privateKey,
              isFirstRun, gens, writes, hookCalls, setupDone, subsys, relay,
              failure, sentry, printed, flushed, outcome, relayRaised>>

updVars == <<dirList, upc, fileAndDirList, foundOeServices, restarts,
             returnCodes, warned, pluginVersionStr, reported, updResult>>

sinkVars == <<calls, warnings, startRequests, clientRunning, clientStarts>>

scriptVars == <<repoRoot, homeFile, spc, stMode, placeResult>>

lifeVars == <<firstStore, hookRuns>>

vars == <<hostVars, updVars, sinkVars, scriptVars, lifeVars>>

NoRelay == [started |-> FALSE, running |-> FALSE, printerId |-> None, privateKey |-> None]

MoonrakerSubsystems == <<"Telemetry", "MDns", "OctoHttpRequest", "OctoPingPong",
                         "SnapshotHelper", "MoonrakerClient">>

BambuSubsystems == <<"Telemetry", "MDns", "OctoPingPong", "WebcamHelper",
                     "CommandHandler", "BambuClient">>

Subsystems == IF host = "moonraker" THEN MoonrakerSubsystems ELSE BambuSubsystems

\* A device before the first step of its first boot.
NewDevice ==
    /\ firstStore = store
    /\ hookRuns = 0

\* The state of a freshly started process over the store s.
NewProcess(s) ==
    /\ pc = "Initializing"
    /\ store = s
    /\ startStore = s
    /\ printerId = None
    /\ privateKey = None
    /\ isFirstRun = FALSE
    /\ gens = <<>>
    /\ writes = <<>>
    /\ hookCalls = 0
    /\ setupDone = FALSE
    /\ subsys = 1
    /\ relay = NoRelay
    /\ failure = "none"
    /\ sentry = 0
    /\ printed = FALSE
    /\ flushed = FALSE
    /\ outcome = "running"
    /\ relayRaised = "none"

\* No update is running.
NoUpdate ==
    /\ dirList = <<>>
    /\ upc = "Idle"
    /\ fileAndDirList = <<>>
    /\ foundOeServices = <<>>
    /\ restarts = <<>>
    /\ returnCodes = <<>>
    /\ warned = <<>>
    /\ pluginVersionStr = "Unknown"
    /\ reported = FALSE
    /\ updResult = None

\* No callback has been made.
NoCalls ==
    /\ calls = <<>>
    /\ warnings = <<>>
    /\ startRequests = <<>>
    /\ clientRunning = FALSE
    /\ clientStarts = 0

\* PlaceUpdateScriptInRoot is not called.
NoScript ==
    /\ repoRoot = <<>>
    /\ homeFile = None
    /\ spc = "Idle"
    /\ stMode = None
    /\ placeResult = "none"

Init ==
    /\ host \in {"moonraker", "bambu"}
    /\ boot = 1
    /\ \E i \in Values, k \in Values : NewProcess([id |-> i, key |-> k])
    /\ NoUpdate
    /\ NoCalls
    /\ NoScript
    /\ NewDevice

\* ------------------------------------------------------------- constructor
\* Variant of MoonrakerHost_init whose except clause prints the failure but
\* does not re-raise it, so the launcher goes on to RunBlocking.
MoonrakerHost_init_NoReraise ==
    /\ host = "moonraker"
    /\ pc = "Initializing"
    /\ \E step \in {"ok", "Config", "LoggerInit", "Sentry.Init"} :
         IF step = "ok"
         THEN /\ pc' = "ConfigLoaded"
              /\ UNCHANGED <<failure, printed, outcome>>
         ELSE /\ pc' = "ConfigLoaded"
              /\ failure' = step
              /\ printed' = TRUE
              /\ UNCHANGED outcome
    /\ UNCHANGED <<updVars, sinkVars, scriptVars, lifeVars, relayRaised>>
    /\ UNCHANGED <<host, boot, store, startStore, printerId, privateKey,
                   isFirstRun, gens, writes, hookCalls, setupDone, subsys,
                   relay, sentry, flushed>>

\* MoonrakerHost.__init__: Config, LoggerInit.GetLogger and Sentry.Init run in
\* one try block; whichever raises, the failure is printed and re-raised.
MoonrakerHost_init ==
    /\ host = "moonraker"
    /\ pc = "Initializing"
    /\ \E step \in {"ok", "Config", "LoggerInit", "Sentry.Init"} :
         IF step = "ok"
         THEN /\ pc' = "ConfigLoaded"
              /\ UNCHANGED <<failure, printed, outcome>>
         ELSE /\ pc' = "CtorRaised"
              /\ failure' = step
              /\ printed' = TRUE
              /\ outcome' = "raised"
    /\ UNCHANGED <<updVars, sinkVars, scriptVars, lifeVars, relayRaised>>
    /\ UNCHANGED <<host, boot, store, startStore, printerId, privateKey,
                   isFirstRun, gens, writes, hookCalls, setupDone, subsys,
                   relay, sentry, flushed>>

\* BambuHost.__init__: the same try block (Config, GetLogger, Sentry.Init).
BambuHost_init ==
    /\ host = "bambu"
    /\ pc = "Initializing"
    /\ \E step \in {"ok", "Config", "LoggerInit", "Sentry.Init"} :
         IF step = "ok"
         THEN /\ pc' = "ConfigLoaded"
              /\ UNCHANGED <<failure, printed, outcome>>
         ELSE /\ pc' = "CtorRaised"
              /\ failure' = step
              /\ printed' = TRUE
              /\ outcome' = "raised"
    /\ UNCHANGED <<updVars, sinkVars, scriptVars, lifeVars, relayRaised>>
    /\ UNCHANGED <<host, boot, store, startStore, printerId, privateKey,
                   isFirstRun, gens, writes, hookCalls, setupDone, subsys,
                   relay, sentry, flushed>>

\* ------------------------------------------------- RunBlocking, before setup
\* Version.GetPluginVersion: required, raises when it fails.
GetPluginVersion ==
    /\ pc = "ConfigLoaded"
    /\ \/ /\ pc' = "VersionFound"
          /\ UNCHANGED failure
       \/ /\ pc' = "Except"
          /\ failure' = "GetPluginVersion"
    /\ UNCHANGED <<updVars, sinkVars, scriptVars, lifeVars, relayRaised>>
    /\ UNCHANGED <<host, boot, store, startStore, printerId, privateKey,
                   isFirstRun, gens, writes, hookCalls, setupDone, subsys,
                   relay, sentry, printed, flushed, outcome>>

\* MoonrakerHost: SystemConfigManager.EnsureUpdateManagerFilesSetup, raises
\* when it fails.
EnsureUpdateManagerFilesSetup ==
    /\ host = "moonraker"
    /\ pc = "VersionFound"
    /\ \/ /\ pc' = "FirstTimeSetup"
          /\ UNCHANGED failure
       \/ /\ pc' = "Except"
          /\ failure' = "EnsureUpdateManagerFilesSetup"
    /\ UNCHANGED <<updVars, sinkVars, scriptVars, lifeVars, relayRaised>>
    /\ UNCHANGED <<host, boot, store, startStore, printerId, privateKey,
                   isFirstRun, gens, writes, hookCalls, setupDone, subsys,
                   relay, sentry, printed, flushed, outcome>>

\* BambuHost: self.Secrets = Secrets(...), the store backend.
SecretsInit ==
    /\ host = "bambu"
    /\ pc = "VersionFound"
    /\ \/ /\ pc' = "FirstTimeSetup"
          /\ UNCHANGED failure
       \/ /\ pc' = "Except"
          /\ failure' = "Secrets"
    /\ UNCHANGED <<updVars, sinkVars, scriptVars, lifeVars, relayRaised>>
    /\ UNCHANGED <<host, boot, store, startStore, printerId, privateKey,
                   isFirstRun, gens, writes, hookCalls, setupDone, subsys,
                   relay, sentry, printed, flushed, outcome>>

\* -------------------------------------------- DoFirstTimeSetupIfNeeded
\* Variant of MoonrakerHost_SetupPrinterId that saves the result of a second
\* call of the generator instead of the value it kept and logged.
MoonrakerHost_SetupPrinterId_SavesOther ==
    /\ host = "moonraker"
    /\ pc = "FirstTimeSetup"
    /\ LET id == GetPrinterId(store) IN
         IF ~IsPrinterIdValid(id)
         THEN \E g \in GeneratePrinterId, g2 \in GeneratePrinterId :
                /\ isFirstRun' = (id = None)
                /\ printerId' = g
                /\ gens' = gens \o <<[field |-> "id", value |-> g],
                                     [field |-> "id", value |-> g2]>>
                /\ \/ /\ store' = SetPrinterId(store, g2)
                      /\ writes' = Append(writes, [field |-> "id", value |-> g2])
                      /\ pc' = "SetupKey"
                      /\ UNCHANGED failure
                   \/ /\ pc' = "Except"
                      /\ failure' = "SetPrinterId"
                      /\ UNCHANGED <<store, writes>>
         ELSE /\ isFirstRun' = FALSE
              /\ printerId' = id
              /\ pc' = "SetupKey"
              /\ UNCHANGED <<gens, store, writes, failure>>
    /\ UNCHANGED <<updVars, sinkVars, scriptVars, lifeVars, relayRaised>>
    /\ UNCHANGED <<host, boot, startStore, privateKey, hookCalls, setupDone,
                   subsys, relay, sentry, printed, flushed, outcome>>

\* Variant of MoonrakerHost_SetupPrinterId that takes every rejected id, absent
\* or not, for a first run.
MoonrakerHost_SetupPrinterId_AnyInvalidIsFirstRun ==
    /\ host = "moonraker"
    /\ pc = "FirstTimeSetup"
    /\ LET id == GetPrinterId(store) IN
         IF ~IsPrinterIdValid(id)
         THEN \E g \in GeneratePrinterId :
                /\ isFirstRun' = TRUE
                /\ printerId' = g
                /\ gens' = Append(gens, [field |-> "id", value |-> g])
                /\ \/ /\ store' = SetPrinterId(store, g)
                      /\ writes' = Append(writes, [field |-> "id", value |-> g])
                      /\ pc' = "SetupKey"
                      /\ UNCHANGED failure
                   \/ /\ pc' = "Except"
                      /\ failure' = "SetPrinterId"
                      /\ UNCHANGED <<store, writes>>
         ELSE /\ isFirstRun' = FALSE
              /\ printerId' = id
              /\ pc' = "SetupKey"
              /\ UNCHANGED <<gens, store, writes, failure>>
    /\ UNCHANGED <<updVars, sinkVars, scriptVars, lifeVars, relayRaised>>
    /\ UNCHANGED <<host, boot, startStore, privateKey, hookCalls, setupDone,
                   subsys, relay, sentry, printed, flushed, outcome>>

\* MoonrakerHost.DoFirstTimeSetupIfNeeded, the printer id block: read the id;
\* if the validator rejects it, note whether it was absent (first run),
\* generate a new one and save it with Config.SetStr, which may raise.
MoonrakerHost_SetupPrinterId ==
    /\ host = "moonraker"
    /\ pc = "FirstTimeSetup"
    /\ LET id == GetPrinterId(store) IN
         IF ~IsPrinterIdValid(id)
         THEN \E g \in GeneratePrinterId :
                /\ isFirstRun' = (id = None)
                /\ printerId' = g
                /\ gens' = Append(gens, [field |-> "id", value |-> g])
                /\ \/ /\ store' = SetPrinterId(store, g)
                      /\ writes' = Append(writes, [field |-> "id", value |-> g])
                      /\ pc' = "SetupKey"
                      /\ UNCHANGED failure
                   \/ /\ pc' = "Except"
                      /\ failure' = "SetPrinterId"
                      /\ UNCHANGED <<store, writes>>
         ELSE /\ isFirstRun' = FALSE
              /\ printerId' = id
              /\ pc' = "SetupKey"
              /\ UNCHANGED <<gens, store, writes, failure>>
    /\ UNCHANGED <<updVars, sinkVars, scriptVars, lifeVars, relayRaised>>
    /\ UNCHANGED <<host, boot, startStore, privateKey, hookCalls, setupDone,
                   subsys, relay, sentry, printed, flushed, outcome>>

\* Variant of MoonrakerHost_SetupPrivateKey that regenerates the pair: a
\* rejected key also replaces the printer id.
MoonrakerHost_SetupPrivateKey_Paired ==
    /\ host = "moonraker"
    /\ pc = "SetupKey"
    /\ LET key == GetPrivateKey(store) IN
         IF ~IsPrivateKeyValid(key)
         THEN \E g \in GeneratePrivateKey, i \in GeneratePrinterId :
                /\ privateKey' = g
                /\ gens' = gens \o <<[field |-> "id", value |-> i],
                                     [field |-> "key", value |-> g]>>
                /\ \/ /\ store' = SetPrivateKey(SetPrinterId(store, i), g)
                      /\ writes' = writes \o <<[field |-> "id", value |-> i],
                                               [field |-> "key", value |-> g]>>
                      /\ pc' = "FirstRunHook"
                      /\ UNCHANGED failure
                   \/ /\ pc' = "Except"
                      /\ failure' = "SetPrivateKey"
                      /\ UNCHANGED <<store, writes>>
         ELSE /\ privateKey' = key
              /\ pc' = "FirstRunHook"
              /\ UNCHANGED <<gens, store, writes, failure>>
    /\ UNCHANGED <<updVars, sinkVars, scriptVars, lifeVars, relayRaised>>
    /\ UNCHANGED <<host, boot, startStore, printerId, isFirstRun, hookCalls,
                   setupDone, subsys, relay, sentry, printed, flushed, outcome>>

\* Variant of MoonrakerHost_SetupPrivateKey that makes and saves a new key
\* on every boot, without validating the stored one.
MoonrakerHost_SetupPrivateKey_AlwaysNew ==
    /\ host = "moonraker"
    /\ pc = "SetupKey"
    /\ \E g \in GeneratePrivateKey :
         /\ privateKey' = g
         /\ gens' = Append(gens, [field |-> "key", value |-> g])
         /\ \/ /\ store' = SetPrivateKey(store, g)
               /\ writes' = Append(writes, [field |-> "key", value |-> g])
               /\ pc' = "FirstRunHook"
               /\ UNCHANGED failure
            \/ /\ pc' = "Except"
               /\ failure' = "SetPrivateKey"
               /\ UNCHANGED <<store, writes>>
    /\ UNCHANGED <<updVars, sinkVars, scriptVars, lifeVars, relayRaised>>
    /\ UNCHANGED <<host, boot, startStore, printerId, isFirstRun, hookCalls,
                   setupDone, subsys, relay, sentry, printed, flushed, outcome>>

\* MoonrakerHost.DoFirstTimeSetupIfNeeded, the private key block.
MoonrakerHost_SetupPrivateKey ==
    /\ host = "moonraker"
    /\ pc = "SetupKey"
    /\ LET key == GetPrivateKey(store) IN
         IF ~IsPrivateKeyValid(key)
         THEN \E g \in GeneratePrivateKey :
                /\ privateKey' = g
                /\ gens' = Append(gens, [field |-> "key", value |-> g])
                /\ \/ /\ store' = SetPrivateKey(store, g)
                      /\ writes' = Append(writes, [field |-> "key", value |-> g])
                      /\ pc' = "FirstRunHook"
                      /\ UNCHANGED failure
                   \/ /\ pc' = "Except"
                      /\ failure' = "SetPrivateKey"
                      /\ UNCHANGED <<store, writes>>
         ELSE /\ privateKey' = key
              /\ pc' = "FirstRunHook"
              /\ UNCHANGED <<gens, store, writes, failure>>
    /\ UNCHANGED <<updVars, sinkVars, scriptVars, lifeVars, relayRaised>>
    /\ UNCHANGED <<host, boot, startStore, printerId, isFirstRun, hookCalls,
                   setupDone, subsys, relay, sentry, printed, flushed, outcome>>

\* Variant of MoonrakerHost_FirstRunSetup that calls the hook in every boot,
\* first run or not.
MoonrakerHost_FirstRunSetup_EveryBoot ==
    /\ host = "moonraker"
    /\ pc = "FirstRunHook"
    /\ hookCalls' = hookCalls + 1
    /\ hookRuns' = hookRuns + 1
    /\ \/ /\ pc' = "GetVars"
          /\ setupDone' = TRUE
          /\ UNCHANGED failure
       \/ /\ pc' = "Except"
          /\ failure' = "EnsureAllowedServicesFile"
          /\ UNCHANGED setupDone
    /\ UNCHANGED <<updVars, sinkVars, scriptVars, firstStore, relayRaised>>
    /\ UNCHANGED <<host, boot, store, startStore, printerId, privateKey,
                   isFirstRun, gens, writes, subsys, relay, sentry, printed,
                   flushed, outcome>>

\* MoonrakerHost.DoFirstTimeSetupIfNeeded, the tail: on a first run call
\* SystemConfigManager.EnsureAllowedServicesFile (which may raise), then return.
MoonrakerHost_FirstRunSetup ==
    /\ host = "moonraker"
    /\ pc = "FirstRunHook"
    /\ IF isFirstRun
       THEN /\ hookCalls' = hookCalls + 1
            /\ hookRuns' = hookRuns + 1
            /\ \/ /\ pc' = "GetVars"
                  /\ setupDone' = TRUE
                  /\ UNCHANGED failure
               \/ /\ pc' = "Except"
                  /\ failure' = "EnsureAllowedServicesFile"
                  /\ UNCHANGED setupDone
       ELSE /\ pc' = "GetVars"
            /\ setupDone' = TRUE
            /\ UNCHANGED <<hookCalls, hookRuns, failure>>
    /\ UNCHANGED <<updVars, sinkVars, scriptVars, firstStore, relayRaised>>
    /\ UNCHANGED <<host, boot, store, startStore, printerId, privateKey,
                   isFirstRun, gens, writes, subsys, relay, sentry, printed,
                   flushed, outcome>>

\* Variant of BambuHost_SetupPrinterId that swallows the error of the store
\* write and carries on with the unsaved id.
BambuHost_SetupPrinterId_IgnoresWriteError ==
    /\ host = "bambu"
    /\ pc = "FirstTimeSetup"
    /\ LET id == GetPrinterId(store) IN
         IF ~IsPrinterIdValid(id)
         THEN \E g \in GeneratePrinterId :
                /\ printerId' = g
                /\ gens' = Append(gens, [field |-> "id", value |-> g])
                /\ \/ /\ store' = SetPrinterId(store, g)
                      /\ writes' = Append(writes, [field |-> "id", value |-> g])
                      /\ pc' = "SetupKey"
                      /\ UNCHANGED failure
                   \/ /\ pc' = "SetupKey"
                      /\ failure' = "SetPrinterId"
                      /\ UNCHANGED <<store, writes>>
         ELSE /\ printerId' = id
              /\ pc' = "SetupKey"
              /\ UNCHANGED <<gens, store, writes, failure>>
    /\ UNCHANGED <<updVars, sinkVars, scriptVars, lifeVars, relayRaised>>
    /\ UNCHANGED <<host, boot, startStore, privateKey, isFirstRun, hookCalls,
                   setupDone, subsys, relay, sentry, printed, flushed, outcome>>

\* BambuHost.DoFirstTimeSetupIfNeeded, the printer id block: no first-run flag.
BambuHost_SetupPrinterId ==
    /\ host = "bambu"
    /\ pc = "FirstTimeSetup"
    /\ LET id == GetPrinterId(store) IN
         IF ~IsPrinterIdValid(id)
         THEN \E g \in GeneratePrinterId :
                /\ printerId' = g
                /\ gens' = Append(gens, [field |-> "id", value |-> g])
                /\ \/ /\ store' = SetPrinterId(store, g)
                      /\ writes' = Append(writes, [field |-> "id", value |-> g])
                      /\ pc' = "SetupKey"
                      /\ UNCHANGED failure
                   \/ /\ pc' = "Except"
                      /\ failure' = "SetPrinterId"
                      /\ UNCHANGED <<store, writes>>
         ELSE /\ printerId' = id
              /\ pc' = "SetupKey"
              /\ UNCHANGED <<gens, store, writes, failure>>
    /\ UNCHANGED <<updVars, sinkVars, scriptVars, lifeVars, relayRaised>>
    /\ UNCHANGED <<host, boot, startStore, privateKey, isFirstRun, hookCalls,
                   setupDone, subsys, relay, sentry, printed, flushed, outcome>>

\* Variant of BambuHost_SetupPrivateKey that drops the rejected key from the
\* store when the write of the new one fails.
BambuHost_SetupPrivateKey_ClearsOnFailure ==
    /\ host = "bambu"
    /\ pc = "SetupKey"
    /\ LET key == GetPrivateKey(store) IN
         IF ~IsPrivateKeyValid(key)
         THEN \E g \in GeneratePrivateKey :
                /\ privateKey' = g
                /\ gens' = Append(gens, [field |-> "key", value |-> g])
                /\ \/ /\ store' = SetPrivateKey(store, g)
                      /\ writes' = Append(writes, [field |-> "key", value |-> g])
                      /\ pc' = "GetVars"
                      /\ setupDone' = TRUE
                      /\ UNCHANGED failure
                   \/ /\ pc' = "Except"
                      /\ failure' = "SetPrivateKey"
                      /\ store' = SetPrivateKey(store, None)
                      /\ UNCHANGED <<writes, setupDone>>
         ELSE /\ privateKey' = key
              /\ pc' = "GetVars"
              /\ setupDone' = TRUE
              /\ UNCHANGED <<gens, store, writes, failure>>
    /\ UNCHANGED <<updVars, sinkVars, scriptVars, lifeVars, relayRaised>>
    /\ UNCHANGED <<host, boot, startStore, printerId, isFirstRun, hookCalls,
                   subsys, relay, sentry, printed, flushed, outcome>>

\* BambuHost.DoFirstTimeSetupIfNeeded, the private key block, then return.
BambuHost_SetupPrivateKey ==
    /\ host = "bambu"
    /\ pc = "SetupKey"
    /\ LET key == GetPrivateKey(store) IN
         IF ~IsPrivateKeyValid(key)
         THEN \E g \in GeneratePrivateKey :
                /\ privateKey' = g
                /\ gens' = Append(gens, [field |-> "key", value |-> g])
                /\ \/ /\ store' = SetPrivateKey(store, g)
                      /\ writes' = Append(writes, [field |-> "key", value |-> g])
                      /\ pc' = "GetVars"
                      /\ setupDone' = TRUE
                      /\ UNCHANGED failure
                   \/ /\ pc' = "Except"
                      /\ failure' = "SetPrivateKey"
                      /\ UNCHANGED <<store, writes, setupDone>>
         ELSE /\ privateKey' = key
              /\ pc' = "GetVars"
              /\ setupDone' = TRUE
              /\ UNCHANGED <<gens, store, writes, failure>>
    /\ UNCHANGED <<updVars, sinkVars, scriptVars, lifeVars, relayRaised>>
    /\ UNCHANGED <<host, boot, startStore, printerId, isFirstRun, hookCalls,
                   subsys, relay, sentry, printed, flushed, outcome>>

\* ------------------------------------------------- RunBlocking, after setup
\* Variant of GetRequiredVars that uses the values read before
\* DoFirstTimeSetupIfNeeded ran.
GetRequiredVars_ReadBeforeSetup ==
    /\ pc = "GetVars"
    /\ printerId' = GetPrinterId(startStore)
    /\ privateKey' = GetPrivateKey(startStore)
    /\ pc' = "Subsystems"
    /\ UNCHANGED <<updVars, sinkVars, scriptVars, lifeVars, relayRaised>>
    /\ UNCHANGED <<host, boot, store, startStore, isFirstRun, gens, writes,
                   hookCalls, setupDone, subsys, relay, failure, sentry,
                   printed, flushed, outcome>>

\* printerId = self.GetPrinterId(); privateKey = self.GetPrivateKey()
GetRequiredVars ==
    /\ pc = "GetVars"
    /\ printerId' = GetPrinterId(store)
    /\ privateKey' = GetPrivateKey(store)
    /\ pc' = "Subsystems"
    /\ UNCHANGED <<updVars, sinkVars, scriptVars, lifeVars, relayRaised>>
    /\ UNCHANGED <<host, boot, store, startStore, isFirstRun, gens, writes,
                   hookCalls, setupDone, subsys, relay, failure, sentry,
                   printed, flushed, outcome>>

\* One supporting subsystem's Init, in the order of the code; none of them is
\* wrapped in a try of its own, so a raise leaves the try block of RunBlocking.
InitSubsystem ==
    /\ pc = "Subsystems"
    /\ \/ /\ subsys' = subsys + 1
          /\ pc' = IF subsys = Len(Subsystems) THEN "StartRelay" ELSE "Subsystems"
          /\ UNCHANGED failure
       \/ /\ pc' = "Except"
          /\ failure' = Subsystems[subsys]
          /\ UNCHANGED subsys
    /\ UNCHANGED <<updVars, sinkVars, scriptVars, lifeVars, relayRaised>>
    /\ UNCHANGED <<host, boot, store, startStore, printerId, privateKey,
                   isFirstRun, gens, writes, hookCalls, setupDone, relay,
                   sentry, printed, flushed, outcome>>

\* oe = OctoEverywhere(uri, printerId, privateKey, ...); oe.RunBlocking()
StartRelay ==
    /\ pc = "StartRelay"
    /\ relay' = [started |-> TRUE, running |-> TRUE,
                 printerId |-> printerId, privateKey |-> privateKey]
    /\ pc' = "Connected"
    /\ UNCHANGED <<updVars, sinkVars, scriptVars, lifeVars, relayRaised>>
    /\ UNCHANGED <<host, boot, store, startStore, printerId, privateKey,
                   isFirstRun, gens, writes, hookCalls, setupDone, subsys,
                   failure, sentry, printed, flushed, outcome>>

\* oe.RunBlocking() returns normally.
RelayReturns ==
    /\ pc = "Connected"
    /\ relay' = [relay EXCEPT !.running = FALSE]
    /\ pc' = "Flush"
    /\ UNCHANGED <<updVars, sinkVars, scriptVars, lifeVars, relayRaised>>
    /\ UNCHANGED <<host, boot, store, startStore, printerId, privateKey,
                   isFirstRun, gens, writes, hookCalls, setupDone, subsys,
                   failure, sentry, printed, flushed, outcome>>

\* What oe.RunBlocking() can raise: an Exception, or one of the BaseExceptions
\* that reach the main thread while it is blocked in the run loop
\* (KeyboardInterrupt on SIGINT, SystemExit on sys.exit).
RaisedClasses == {"Exception", "KeyboardInterrupt", "SystemExit"}

\* oe.RunBlocking() raises. `except Exception` takes an Exception to the
\* except clause; a KeyboardInterrupt or SystemExit is not an Exception and
\* leaves RunBlocking at once, past the except clause and the flush block.
RelayRaises ==
    /\ pc = "Connected"
    /\ relay' = [relay EXCEPT !.running = FALSE]
    /\ failure' = "OctoEverywhere.RunBlocking"
    /\ \E e \in RaisedClasses :
         /\ relayRaised' = e
         /\ IF e = "Exception"
            THEN /\ pc' = "Except"
                 /\ UNCHANGED outcome
            ELSE /\ pc' = "Exited"
                 /\ outcome' = "raised"
    /\ UNCHANGED <<updVars, sinkVars, scriptVars, lifeVars>>
    /\ UNCHANGED <<host, boot, store, startStore, printerId, privateKey,
                   isFirstRun, gens, writes, hookCalls, setupDone, subsys,
                   sentry, printed, flushed>>

\* Variant of HandleException whose except clause passes without a call of
\* Sentry.Exception.
HandleException_Silent ==
    /\ pc = "Except"
    /\ pc' = "Flush"
    /\ UNCHANGED <<updVars, sinkVars, scriptVars, lifeVars, relayRaised>>
    /\ UNCHANGED <<host, boot, store, startStore, printerId, privateKey,
                   isFirstRun, gens, writes, hookCalls, setupDone, subsys,
                   relay, failure, sentry, printed, flushed, outcome>>

\* except Exception as e: Sentry.Exception(...)
HandleException ==
    /\ pc = "Except"
    /\ sentry' = sentry + 1
    /\ pc' = "Flush"
    /\ UNCHANGED <<updVars, sinkVars, scriptVars, lifeVars, relayRaised>>
    /\ UNCHANGED <<host, boot, store, startStore, printerId, privateKey,
                   isFirstRun, gens, writes, hookCalls, setupDone, subsys,
                   relay, failure, printed, flushed, outcome>>

\* The closing try block: logging.shutdown(), then RunBlocking returns.
FlushLogs ==
    /\ pc = "Flush"
    /\ flushed' = TRUE
    /\ pc' = "Exited"
    /\ outcome' = "returned"
    /\ UNCHANGED <<updVars, sinkVars, scriptVars, lifeVars, relayRaised>>
    /\ UNCHANGED <<host, boot, store, startStore, printerId, privateKey,
                   isFirstRun, gens, writes, hookCalls, setupDone, subsys,
                   relay, failure, sentry, printed>>

\* The service manager starts the process again over the persisted store.
Reboot ==
    /\ pc \in {"Exited", "CtorRaised"}
    /\ boot < MaxBoots
    /\ boot' = boot + 1
    /\ pc' = "Initializing"
    /\ startStore' = store
    /\ printerId' = None
    /\ privateKey' = None
    /\ isFirstRun' = FALSE
    /\ gens' = <<>>
    /\ writes' = <<>>
    /\ hookCalls' = 0
    /\ setupDone' = FALSE
    /\ subsys' = 1
    /\ relay' = NoRelay
    /\ failure' = "none"
    /\ sentry' = 0
    /\ printed' = FALSE
    /\ flushed' = FALSE
    /\ outcome' = "running"
    /\ relayRaised' = "none"
    /\ UNCHANGED <<updVars, sinkVars, scriptVars, lifeVars>>
    /\ UNCHANGED <<host, store>>

Next ==
    \/ MoonrakerHost_init
    \/ BambuHost_init
    \/ GetPluginVersion
    \/ EnsureUpdateManagerFilesSetup
    \/ SecretsInit
    \/ MoonrakerHost_SetupPrinterId
    \/ MoonrakerHost_SetupPrivateKey
    \/ MoonrakerHost_FirstRunSetup
    \/ BambuHost_SetupPrinterId
    \/ BambuHost_SetupPrivateKey
    \/ GetRequiredVars
    \/ InitSubsystem
    \/ StartRelay
    \/ RelayReturns
    \/ RelayRaises
    \/ HandleException
    \/ FlushLogs
    \/ Reboot

Spec == Init /\ [][Next]_vars

\* ====================================================== StatusChangeHandler
\* Number of sessions the relay establishes while the host stays connected.
MaxSessions == 2

\* The session tokens the relay hands to the callback.
OctoKeys == {"octoKey1", "octoKey2"}

\* What the relay can pass as connectedAccounts: None or a list.
AccountLists == {None, Some(<<>>), Some(<<"account1">>),
                 Some(<<"account1", "account2">>)}

\* HostCommon.GetAddPrinterUrl(printerId, False): the linking URL, which ends
\* with the printer id.
GetAddPrinterUrl(id) ==
    <<"https://octoeverywhere.com/getstarted?printerid=">> \o id[1]

\* MoonrakerClient.StartRunningIfNotAlready: the number of client threads
\* started so far, after a request made while the client is or is not running.
StartRunningIfNotAlready(running, starts) ==
    IF running THEN starts ELSE starts + 1

\* A host process in oe.RunBlocking(), over a store that holds a valid id and
\* a valid key: the relay client makes its callbacks from there.
SinkInit ==
    /\ host \in {"moonraker", "bambu"}
    /\ boot = 1
    /\ pc = "Connected"
    /\ \E i \in GeneratePrinterId, k \in GeneratePrivateKey :
         /\ store = [id |-> i, key |-> k]
         /\ startStore = store
         /\ printerId = i
         /\ privateKey = k
         /\ relay = [started |-> TRUE, running |-> TRUE,
                     printerId |-> i, privateKey |-> k]
    /\ isFirstRun = FALSE
    /\ gens = <<>>
    /\ writes = <<>>
    /\ hookCalls = 0
    /\ setupDone = TRUE
    /\ subsys = Len(Subsystems) + 1
    /\ failure = "none"
    /\ sentry = 0
    /\ printed = FALSE
    /\ flushed = FALSE
    /\ outcome = "running"
    /\ relayRaised = "none"
    /\ NoUpdate
    /\ NoCalls
    /\ NoScript
    /\ NewDevice

\* Variant of MoonrakerHost_OnPrimaryConnectionEstablished that asks for the
\* client start on the first session only.
MoonrakerHost_OnPrimaryConnectionEstablished_FirstSessionOnly ==
    /\ host = "moonraker"
    /\ pc = "Connected"
    /\ Len(calls) < MaxSessions
    /\ \E octoKey \in OctoKeys, connectedAccounts \in AccountLists :
         /\ calls' = Append(calls, [octoKey |-> octoKey,
                                    connectedAccounts |-> connectedAccounts])
         /\ IF calls = <<>>
            THEN /\ startRequests' = Append(startRequests, octoKey)
                 /\ clientRunning' = TRUE
                 /\ clientStarts' = clientStarts + 1
            ELSE UNCHANGED <<startRequests, clientRunning, clientStarts>>
    /\ UNCHANGED warnings
    /\ UNCHANGED <<hostVars, updVars, scriptVars, lifeVars>>

\* MoonrakerHost.OnPrimaryConnectionEstablished: log, then
\* MoonrakerClient.Get().StartRunningIfNotAlready(octoKey), which starts the
\* client's thread unless it is running already.
MoonrakerHost_OnPrimaryConnectionEstablished ==
    /\ host = "moonraker"
    /\ pc = "Connected"
    /\ Len(calls) < MaxSessions
    /\ \E octoKey \in OctoKeys, connectedAccounts \in AccountLists :
         /\ calls' = Append(calls, [octoKey |-> octoKey,
                                    connectedAccounts |-> connectedAccounts])
         /\ startRequests' = Append(startRequests, octoKey)
    /\ clientRunning' = TRUE
    /\ clientStarts' = StartRunningIfNotAlready(clientRunning, clientStarts)
    /\ UNCHANGED warnings
    /\ UNCHANGED <<hostVars, updVars, scriptVars, lifeVars>>

\* Variant of BambuHost_OnPrimaryConnectionEstablished that tests only for
\* None, not for an empty list.
BambuHost_OnPrimaryConnectionEstablished_OnlyNone ==
    /\ host = "bambu"
    /\ pc = "Connected"
    /\ Len(calls) < MaxSessions
    /\ \E octoKey \in OctoKeys, connectedAccounts \in AccountLists :
         /\ calls' = Append(calls, [octoKey |-> octoKey,
                                    connectedAccounts |-> connectedAccounts])
         /\ warnings' =
                IF connectedAccounts = None
                THEN Append(warnings, [call |-> Len(calls) + 1,
                                       url |-> GetAddPrinterUrl(GetPrinterId(store))])
                ELSE warnings
    /\ UNCHANGED <<startRequests, clientRunning, clientStarts>>
    /\ UNCHANGED <<hostVars, updVars, scriptVars, lifeVars>>

\* BambuHost.OnPrimaryConnectionEstablished: log; if connectedAccounts is None
\* or empty, log the warning block with the link for self.GetPrinterId().
BambuHost_OnPrimaryConnectionEstablished ==
    /\ host = "bambu"
    /\ pc = "Connected"
    /\ Len(calls) < MaxSessions
    /\ \E octoKey \in OctoKeys, connectedAccounts \in AccountLists :
         /\ calls' = Append(calls, [octoKey |-> octoKey,
                                    connectedAccounts |-> connectedAccounts])
         /\ warnings' =
                IF connectedAccounts = None \/ Len(connectedAccounts[1]) = 0
                THEN Append(warnings, [call |-> Len(calls) + 1,
                                       url |-> GetAddPrinterUrl(GetPrinterId(store))])
                ELSE warnings
    /\ UNCHANGED <<startRequests, clientRunning, clientStarts>>
    /\ UNCHANGED <<hostVars, updVars, scriptVars, lifeVars>>

SinkNext ==
    \/ MoonrakerHost_OnPrimaryConnectionEstablished
    \/ BambuHost_OnPrimaryConnectionEstablished

SinkSpec == SinkInit /\ [][SinkNext]_vars

\* ================================================================= Updater
\* ------------------------------------------------------ Python str built-ins
UpperCase == <<"A", "B", "C", "D", "E", "F", "G", "H", "I", "J", "K", "L", "M",
               "N", "O", "P", "Q", "R", "S", "T", "U", "V", "W", "X", "Y", "Z">>

LowerCase == <<"a", "b", "c", "d", "e", "f", "g", "h", "i", "j", "k", "l", "m",
               "n", "o", "p", "q", "r", "s", "t", "u", "v", "w", "x", "y", "z">>

Digits == <<"0", "1", "2", "3", "4", "5", "6", "7", "8", "9">>

IndexIn(c, table) == CHOOSE i \in 1..Len(table) : table[i] = c

IsIn(c, table) == \E i \in 1..Len(table) : table[i] = c

\* ord(c), for the characters service file names are written with.
Ord(c) ==
    IF IsIn(c, UpperCase) THEN 64 + IndexIn(c, UpperCase)
    ELSE IF IsIn(c, LowerCase) THEN 96 + IndexIn(c, LowerCase)
    ELSE IF IsIn(c, Digits) THEN 47 + IndexIn(c, Digits)
    ELSE CASE c = " " -> 32
           [] c = "-" -> 45
           [] c = "." -> 46
           [] c = "@" -> 64
           [] c = "_" -> 95

\* str.lower(), one character.
ToLower(c) == IF IsIn(c, UpperCase) THEN LowerCase[IndexIn(c, UpperCase)] ELSE c

\* str.lower()
StrLower(s) == [i \in 1..Len(s) |-> ToLower(s[i])]

\* str.startswith(prefix)
StartsWith(s, prefix) ==
    /\ Len(s) >= Len(prefix)
    /\ SubSeq(s, 1, Len(prefix)) = prefix

\* a < b on str: by code point at the first difference, a proper prefix first.
StrLess(a, b) ==
    \E k \in 1..Len(b) :
        /\ k <= Len(a) + 1
        /\ \A i \in 1..(k - 1) : a[i] = b[i]
        /\ IF k > Len(a) THEN TRUE ELSE Ord(a[k]) < Ord(b[k])

RECURSIVE Insert(_, _)
\* Insertion of x into the sorted list s, after the elements not above it.
Insert(x, s) ==
    IF s = <<>> THEN <<x>>
    ELSE IF StrLess(x, s[1]) THEN <<x>> \o s
    ELSE <<s[1]>> \o Insert(x, Tail(s))

RECURSIVE Sorted(_)
\* sorted(list of str)
Sorted(s) ==
    IF s = <<>> THEN <<>>
    ELSE Insert(s[Len(s)], Sorted(SubSeq(s, 1, Len(s) - 1)))

\* ------------------------------------------------------ the service directory
\* "octoeverywhere-bambu.service"
SvcBambu ==
    <<"o", "c", "t", "o", "e", "v", "e", "r", "y", "w", "h", "e", "r",
      "e", "-", "b", "a", "m", "b", "u", ".", "s", "e", "r", "v", "i", "c",
      "e">>

\* "other-app.service"
SvcOther ==
    <<"o", "t", "h", "e", "r", "-", "a", "p", "p", ".", "s", "e", "r",
      "v", "i", "c", "e">>

\* "OctoEverywhere-companion.service"
SvcCompanion ==
    <<"O", "c", "t", "o", "E", "v", "e", "r", "y", "w", "h", "e", "r",
      "e", "-", "c", "o", "m", "p", "a", "n", "i", "o", "n", ".", "s", "e",
      "r", "v", "i", "c", "e">>

\* "octoeverywhere"
SvcBare ==
    <<"o", "c", "t", "o", "e", "v", "e", "r", "y", "w", "h", "e", "r",
      "e">>

\* "octoeverywher"
SvcShort ==
    <<"o", "c", "t", "o", "e", "v", "e", "r", "y", "w", "h", "e", "r">>

\* "OCTOEVERYWHERE-2.service"
SvcUpper ==
    <<"O", "C", "T", "O", "E", "V", "E", "R", "Y", "W", "H", "E", "R",
      "E", "-", "2", ".", "s", "e", "r", "v", "i", "c", "e">>

\* "Zoctoeverywhere.service"
SvcInfix ==
    <<"Z", "o", "c", "t", "o", "e", "v", "e", "r", "y", "w", "h", "e",
      "r", "e", ".", "s", "e", "r", "v", "i", "c", "e">>

\* The file names a service directory is populated from.
ServiceNames == {SvcBambu, SvcOther, SvcCompanion, SvcBare, SvcShort, SvcUpper,
                 SvcInfix}

\* os.listdir: the entries, each once, in any order.
Listings ==
    UNION {{l \in [1..k -> ServiceNames] :
               \A i, j \in 1..k : i # j => l[i] # l[j]} : k \in 0..MaxEntries}

\* Configure.c_ServiceCommonNamePrefix: "octoeverywhere"
c_ServiceCommonNamePrefix ==
    <<"o", "c", "t", "o", "e", "v", "e", "r", "y", "w", "h", "e", "r", "e">>

\* "systemctl restart "
SystemctlRestart ==
    <<"s", "y", "s", "t", "e", "m", "c", "t", "l", " ", "r", "e", "s", "t",
      "a", "r", "t", " ">>

\* What Util.RunShellCommand can return as returnCode.
ReturnCodes == {0, 1}

\* ------------------------------------------------------------------ DoUpdate
UpdInit ==
    /\ host = "moonraker"
    /\ boot = 1
    /\ NewProcess([id |-> None, key |-> None])
    /\ dirList \in Listings
    /\ upc = "Start"
    /\ fileAndDirList = <<>>
    /\ foundOeServices = <<>>
    /\ restarts = <<>>
    /\ returnCodes = <<>>
    /\ warned = <<>>
    /\ pluginVersionStr = "Unknown"
    /\ reported = FALSE
    /\ updResult = None
    /\ NoCalls
    /\ NoScript
    /\ NewDevice

\* Variant of DoUpdate_FindServices that compares the names as they are
\* written, without lower().
DoUpdate_FindServices_CaseSensitive ==
    /\ upc = "Start"
    /\ fileAndDirList' = Sorted(dirList)
    /\ foundOeServices' =
           SelectSeq(fileAndDirList',
                     LAMBDA n : StartsWith(n, c_ServiceCommonNamePrefix))
    /\ upc' = IF Len(foundOeServices') = 0 THEN "Raised" ELSE "Restarting"
    /\ UNCHANGED <<dirList, restarts, returnCodes, warned, pluginVersionStr,
                   reported>>
    /\ UNCHANGED updResult
    /\ UNCHANGED <<hostVars, sinkVars, scriptVars, lifeVars>>

\* Variant of DoUpdate_FindServices without the check for an empty result.
DoUpdate_FindServices_NoEmptyCheck ==
    /\ upc = "Start"
    /\ fileAndDirList' = Sorted(dirList)
    /\ foundOeServices' =
           SelectSeq(fileAndDirList',
                     LAMBDA n : StartsWith(StrLower(n), c_ServiceCommonNamePrefix))
    /\ upc' = IF Len(foundOeServices') = 0 THEN "Version" ELSE "Restarting"
    /\ UNCHANGED <<dirList, restarts, returnCodes, warned, pluginVersionStr,
                   reported>>
    /\ UNCHANGED updResult
    /\ UNCHANGED <<hostVars, sinkVars, scriptVars, lifeVars>>

\* DoUpdate up to the restart loop: list the directory, sort it, keep the names
\* that start with the prefix once lowered, and raise when none is left.
DoUpdate_FindServices ==
    /\ upc = "Start"
    /\ fileAndDirList' = Sorted(dirList)
    /\ foundOeServices' =
           SelectSeq(fileAndDirList',
                     LAMBDA n : StartsWith(StrLower(n), c_ServiceCommonNamePrefix))
    /\ upc' = IF Len(foundOeServices') = 0 THEN "Raised" ELSE "Restarting"
    /\ UNCHANGED <<dirList, restarts, returnCodes, warned, pluginVersionStr,
                   reported>>
    /\ UNCHANGED updResult
    /\ UNCHANGED <<hostVars, sinkVars, scriptVars, lifeVars>>

\* Variant of DoUpdate_RestartService that leaves the loop at the first return
\* code that is not 0.
DoUpdate_RestartService_StopsOnFailure ==
    /\ upc = "Restarting"
    /\ LET s == foundOeServices[Len(restarts) + 1] IN
         \E returnCode \in ReturnCodes :
           /\ restarts' = Append(restarts, SystemctlRestart \o s)
           /\ returnCodes' = Append(returnCodes, returnCode)
           /\ warned' = IF returnCode # 0 THEN Append(warned, s) ELSE warned
           /\ upc' = IF returnCode # 0 \/ Len(restarts') = Len(foundOeServices)
                     THEN "Version" ELSE "Restarting"
    /\ UNCHANGED <<dirList, fileAndDirList, foundOeServices, pluginVersionStr,
                   reported>>
    /\ UNCHANGED updResult
    /\ UNCHANGED <<hostVars, sinkVars, scriptVars, lifeVars>>

\* One turn of the restart loop: run "systemctl restart "+s for the next found
\* service and warn when the return code is not 0.
DoUpdate_RestartService ==
    /\ upc = "Restarting"
    /\ LET s == foundOeServices[Len(restarts) + 1] IN
         \E returnCode \in ReturnCodes :
           /\ restarts' = Append(restarts, SystemctlRestart \o s)
           /\ returnCodes' = Append(returnCodes, returnCode)
           /\ warned' = IF returnCode # 0 THEN Append(warned, s) ELSE warned
    /\ upc' = IF Len(restarts') = Len(foundOeServices) THEN "Version"
              ELSE "Restarting"
    /\ UNCHANGED <<dirList, fileAndDirList, foundOeServices, pluginVersionStr,
                   reported>>
    /\ UNCHANGED updResult
    /\ UNCHANGED <<hostVars, sinkVars, scriptVars, lifeVars>>

\* Variant of DoUpdate_GetPluginVersion without the try/except: a raise of
\* Version.GetPluginVersion leaves DoUpdate.
DoUpdate_GetPluginVersion_Propagates ==
    /\ upc = "Version"
    /\ \/ /\ pluginVersionStr' = "1.0.0"
          /\ upc' = "Report"
       \/ /\ pluginVersionStr' = "Unknown"
          /\ upc' = "Raised"
    /\ UNCHANGED <<dirList, fileAndDirList, foundOeServices, restarts,
                   returnCodes, warned, reported>>
    /\ UNCHANGED updResult
    /\ UNCHANGED <<hostVars, sinkVars, scriptVars, lifeVars>>

\* pluginVersionStr = "Unknown", replaced by Version.GetPluginVersion's result
\* unless that raises.
DoUpdate_GetPluginVersion ==
    /\ upc = "Version"
    /\ \/ pluginVersionStr' = "1.0.0"
       \/ pluginVersionStr' = "Unknown"
    /\ upc' = "Report"
    /\ UNCHANGED <<dirList, fileAndDirList, foundOeServices, restarts,
                   returnCodes, warned, reported>>
    /\ UNCHANGED updResult
    /\ UNCHANGED <<hostVars, sinkVars, scriptVars, lifeVars>>

\* The closing report, "OctoEverywhere Update Successful"; DoUpdate returns.
DoUpdate_Report ==
    /\ upc = "Report"
    /\ reported' = TRUE
    /\ updResult' = None
    /\ upc' = "Done"
    /\ UNCHANGED <<dirList, fileAndDirList, foundOeServices, restarts,
                   returnCodes, warned, pluginVersionStr>>
    /\ UNCHANGED <<hostVars, sinkVars, scriptVars, lifeVars>>

UpdNext ==
    \/ DoUpdate_FindServices
    \/ DoUpdate_RestartService
    \/ DoUpdate_GetPluginVersion
    \/ DoUpdate_Report

UpdSpec == UpdInit /\ [][UpdNext]_vars

\* =================================================== PlaceUpdateScriptInRoot
\* context.RepoRootFolder values.
RepoRoots == {<<"/home/user/octoeverywhere">>, <<"/home/pi/octoeverywhere">>,
              <<"/usr/data/octoeverywhere">>}

\* stat.S_IEXEC, the owner's execute bit (0o100).
S_IEXEC == 64

\* Permission bits a file can have: 0o644, 0o600, 0o755, 0o444.
FileModes == {420, 384, 493, 292}

\* Permission bits open(path, 'w') gives a file it creates: 0o666 masked by a
\* umask of 0o022 or 0o077.
NewFileModes == {420, 384}

\* mode | bit, for a single bit.
BitOr(mode, bit) ==
    IF (mode \div bit) % 2 = 1 THEN mode ELSE mode + bit

HasBit(mode, bit) == (mode \div bit) % 2 = 1

\* The lines of the f-string s that are not blank or comments; a line is the
\* sequence of its literal text and of what is interpolated into it.
UpdateScript(root) ==
    << <<"#!/bin/bash">>,
       <<"startingDir=$(pwd)">>,
       <<"cd ">> \o root,
       <<"./update.sh">>,
       <<"cd $startingDir">> >>

\* What is in the home directory at update-octoeverywhere.sh before the call:
\* nothing, or a file left by an earlier install or by the user.
OldFiles ==
    {None} \cup
    {Some([content |-> c, mode |-> m]) :
        c \in {<<>>, UpdateScript(<<"/old/octoeverywhere">>)}, m \in FileModes}

PlaceInit ==
    /\ host = "moonraker"
    /\ boot = 1
    /\ NewProcess([id |-> None, key |-> None])
    /\ NoUpdate
    /\ NoCalls
    /\ repoRoot \in RepoRoots
    /\ homeFile \in OldFiles
    /\ spc = "Open"
    /\ stMode = None
    /\ placeResult = "none"
    /\ NewDevice

\* with open(updateFilePath, 'w', encoding="utf-8") as f: creates the file or
\* truncates the one that is there, keeping its mode; an OSError goes to the
\* except clause, which returns False.
Place_Open ==
    /\ spc = "Open"
    /\ \/ /\ homeFile = None
          /\ \E m \in NewFileModes :
               homeFile' = Some([content |-> <<>>, mode |-> m])
          /\ spc' = "Write"
          /\ UNCHANGED placeResult
       \/ /\ homeFile # None
          /\ homeFile' = Some([homeFile[1] EXCEPT !.content = <<>>])
          /\ spc' = "Write"
          /\ UNCHANGED placeResult
       \/ /\ spc' = "Failed"
          /\ placeResult' = "False"
          /\ UNCHANGED homeFile
    /\ UNCHANGED <<repoRoot, stMode>>
    /\ UNCHANGED <<hostVars, updVars, sinkVars, lifeVars>>

\* f.write(s) and the close of the with block: the whole script is in the
\* file, or an OSError leaves a part of it and False is returned. The part
\* can hold every line of the script: s goes on after its last line, with a
\* line feed and blanks, and the write can be cut there.
Place_Write ==
    /\ spc = "Write"
    /\ \/ /\ homeFile' = Some([homeFile[1] EXCEPT !.content = UpdateScript(repoRoot)])
          /\ spc' = "Stat"
          /\ UNCHANGED placeResult
       \/ /\ \E n \in 0..Len(UpdateScript(repoRoot)) :
               homeFile' = Some([homeFile[1] EXCEPT
                                   !.content = SubSeq(UpdateScript(repoRoot), 1, n)])
          /\ spc' = "Failed"
          /\ placeResult' = "False"
    /\ UNCHANGED <<repoRoot, stMode>>
    /\ UNCHANGED <<hostVars, updVars, sinkVars, lifeVars>>

\* st = os.stat(updateFilePath)
Place_Stat ==
    /\ spc = "Stat"
    /\ \/ /\ stMode' = Some(homeFile[1].mode)
          /\ spc' = "Chmod"
          /\ UNCHANGED placeResult
       \/ /\ spc' = "Failed"
          /\ placeResult' = "False"
          /\ UNCHANGED stMode
    /\ UNCHANGED <<repoRoot, homeFile>>
    /\ UNCHANGED <<hostVars, updVars, sinkVars, lifeVars>>

\* Variant of Place_Chmod without the try/except around the body.
Place_Chmod_NoExcept ==
    /\ spc = "Chmod"
    /\ \/ /\ homeFile' = Some([homeFile[1] EXCEPT !.mode = BitOr(stMode[1], S_IEXEC)])
          /\ spc' = "Returned"
          /\ placeResult' = "True"
       \/ /\ spc' = "Failed"
          /\ placeResult' = "raised"
          /\ UNCHANGED homeFile
    /\ UNCHANGED <<repoRoot, stMode>>
    /\ UNCHANGED <<hostVars, updVars, sinkVars, lifeVars>>

\* os.chmod(updateFilePath, st.st_mode | stat.S_IEXEC); return True
Place_Chmod ==
    /\ spc = "Chmod"
    /\ \/ /\ homeFile' = Some([homeFile[1] EXCEPT !.mode = BitOr(stMode[1], S_IEXEC)])
          /\ spc' = "Returned"
          /\ placeResult' = "True"
       \/ /\ spc' = "Failed"
          /\ placeResult' = "False"
          /\ UNCHANGED homeFile
    /\ UNCHANGED <<repoRoot, stMode>>
    /\ UNCHANGED <<hostVars, updVars, sinkVars, lifeVars>>

PlaceNext ==
    \/ Place_Open
    \/ Place_Write
    \/ Place_Stat
    \/ Place_Chmod

PlaceSpec == PlaceInit /\ [][PlaceNext]_vars

\* =================================================================== claims
IdGens == SelectSeq(gens, LAMBDA g : g.field = "id")
IdWrites == SelectSeq(writes, LAMBDA w : w.field = "id")
KeyGens == SelectSeq(gens, LAMBDA g : g.field = "key")
KeyWrites == SelectSeq(writes, LAMBDA w : w.field = "key")

CtorFailures == {"Config", "LoggerInit", "Sentry.Init"}

\* C1: in every boot of either host the relay client is started only after
\* DoFirstTimeSetupIfNeeded has returned, and the printerId and privateKey it
\* is given are the values the store holds then, both accepted by their
\* validators.
C1_RelayStartedWithStoredValidIdentity ==
    relay.started =>
        /\ setupDone
        /\ relay.printerId = GetPrinterId(store)
        /\ relay.privateKey = GetPrivateKey(store)
        /\ IsPrinterIdValid(relay.printerId)
        /\ IsPrivateKeyValid(relay.privateKey)

\* C1 witness: the relay runs in a boot that found no id and a malformed key.
C1_Witness ==
    /\ relay.running
    /\ startStore.id = None
    /\ startStore.key # None
    /\ ~IsPrivateKeyValid(startStore.key)

\* C2: when the setup returns in a boot that found the printer id absent or
\* malformed, the store holds a valid id, and it is the one value generated
\* in this call: one generation, one write, of that same value.
C2_GeneratedIdIsThePersistedId ==
    (setupDone /\ ~IsPrinterIdValid(startStore.id)) =>
        /\ IsPrinterIdValid(GetPrinterId(store))
        /\ Len(IdGens) = 1
        /\ Len(IdWrites) = 1
        /\ IdGens[1].value = GetPrinterId(store)
        /\ IdWrites[1].value = GetPrinterId(store)

\* C2 witness: the setup returned after replacing a malformed (too long) id.
C2_Witness ==
    /\ setupDone
    /\ startStore.id # None
    /\ Len(startStore.id[1]) > PrinterIdLength
    /\ Len(IdWrites) = 1

\* C3 as stated: in either host, when the setup returns, the first-run flag is
\* set and the one-time hook has been called if and only if the id was absent.
C3_Original ==
    setupDone => ((isFirstRun /\ hookCalls = 1) <=> startStore.id = None)

\* C3 amended: in MoonrakerHost, when the setup returns, isFirstRun is true
\* exactly when the id was absent, and the hook has been called once exactly
\* when isFirstRun is true; BambuHost has no first-run flag and never calls
\* the hook; in no host is the hook called in a boot that found an id.
C3_FirstRunOnlyInMoonraker ==
    /\ (host = "moonraker" /\ setupDone) =>
           /\ isFirstRun <=> (startStore.id = None)
           /\ hookCalls = (IF isFirstRun THEN 1 ELSE 0)
    /\ host = "bambu" => (~isFirstRun /\ hookCalls = 0)
    /\ hookCalls > 0 => startStore.id = None

\* C3 witness: a Moonraker boot that found no id has returned from the setup
\* with the hook called, after generating a key as well.
C3_Witness ==
    /\ host = "moonraker"
    /\ setupDone
    /\ startStore.id = None
    /\ isFirstRun
    /\ hookCalls = 1
    /\ Len(KeyWrites) = 1

\* C4: id and key are regenerated independently.  A field the boot found valid
\* is never written; when the setup returns after finding a valid id and a
\* rejected key the only write of the boot is the key's, and symmetrically.
C4_IndependentRegeneration ==
    /\ IsPrinterIdValid(startStore.id) =>
           (store.id = startStore.id /\ IdWrites = <<>>)
    /\ IsPrivateKeyValid(startStore.key) =>
           (store.key = startStore.key /\ KeyWrites = <<>>)
    /\ (setupDone /\ IsPrinterIdValid(startStore.id)
                  /\ ~IsPrivateKeyValid(startStore.key)) =>
           /\ Len(writes) = 1
           /\ writes[1].field = "key"
           /\ store.key = writes[1].value
           /\ store.key # startStore.key
    /\ (setupDone /\ ~IsPrinterIdValid(startStore.id)
                  /\ IsPrivateKeyValid(startStore.key)) =>
           /\ Len(writes) = 1
           /\ writes[1].field = "id"
           /\ store.id = writes[1].value
           /\ store.id # startStore.id

\* C4 witness: the setup returned in a boot that found a valid id and a
\* malformed key, and wrote once.
C4_Witness ==
    /\ setupDone
    /\ IsPrinterIdValid(startStore.id)
    /\ startStore.key # None
    /\ ~IsPrivateKeyValid(startStore.key)
    /\ Len(writes) = 1

\* C5: after a store write of the id or of the key has failed, the boot is on
\* its failure path: the setup never returns, the relay is never started, the
\* hook is not called, nothing more is generated or written, the store does not
\* hold the unsaved value, and the failure is reported before the process ends.
C5_FailedWriteIsFatalForTheBoot ==
    /\ failure \in {"SetPrinterId", "SetPrivateKey"} =>
           /\ pc \in {"Except", "Flush", "Exited"}
           /\ ~setupDone
           /\ ~relay.started
           /\ hookCalls = 0
           /\ pc # "Except" => sentry = 1
    /\ failure = "SetPrinterId" =>
           /\ writes = <<>>
           /\ Len(gens) = 1
           /\ store = startStore
           /\ GetPrinterId(store) # gens[1].value
    /\ failure = "SetPrivateKey" =>
           /\ KeyWrites = <<>>
           /\ Len(KeyGens) = 1
           /\ GetPrivateKey(store) = startStore.key
           /\ GetPrivateKey(store) # KeyGens[1].value

\* C5 witness: a boot has ended after the id was saved and the key write
\* failed.
C5_Witness ==
    /\ failure = "SetPrivateKey"
    /\ pc = "Exited"
    /\ Len(IdWrites) = 1

\* C6 as stated: however RunBlocking ends, logging.shutdown has been attempted
\* by then, and it is attempted only once the relay run loop has stopped.
C6_FlushBeforeExitAfterRelay ==
    /\ pc = "Exited" => flushed
    /\ outcome # "running" => (flushed \/ pc = "CtorRaised")
    /\ flushed => ~relay.running
    /\ flushed => pc = "Exited"

\* C7 as stated: whatever the relay run loop raises is caught by RunBlocking
\* and reported once with Sentry.Exception, and RunBlocking does not raise.
C7_Original ==
    failure = "OctoEverywhere.RunBlocking" =>
        /\ relay.started
        /\ ~relay.running
        /\ pc \in {"Except", "Flush", "Exited"}
        /\ pc # "Except" => sentry = 1
        /\ outcome # "raised"
        /\ pc = "Exited" => outcome = "returned"

\* C8: a failure in the constructor's try block (the configuration load first
\* of all) is printed and re-raised to the launcher; in that process the setup
\* never runs, nothing is generated or written, and the relay is not started.
C8_ConstructorFailureIsFatal ==
    failure \in CtorFailures =>
        /\ pc = "CtorRaised"
        /\ printed
        /\ outcome = "raised"
        /\ ~setupDone
        /\ gens = <<>>
        /\ writes = <<>>
        /\ store = startStore
        /\ ~relay.started
        /\ sentry = 0

\* C8 witness: the configuration load of a Bambu host failed on a device whose
\* store is still empty.
C8_Witness ==
    /\ host = "bambu"
    /\ failure = "Config"
    /\ pc = "CtorRaised"
    /\ store = [id |-> None, key |-> None]

\* A name starts with the prefix when case is ignored.
MatchesPrefix(n) ==
    /\ Len(n) >= Len(c_ServiceCommonNamePrefix)
    /\ \A i \in 1..Len(c_ServiceCommonNamePrefix) :
           ToLower(n[i]) = c_ServiceCommonNamePrefix[i]

\* The entries of the directory that match.
Matching == {dirList[i] : i \in {j \in 1..Len(dirList) : MatchesPrefix(dirList[j])}}

\* The service a restart command names.
ServiceOf(cmd) == SubSeq(cmd, Len(SystemctlRestart) + 1, Len(cmd))

Restarted == {ServiceOf(restarts[i]) : i \in 1..Len(restarts)}

\* C9: DoUpdate issues "systemctl restart <name>" only for entries whose name
\* starts with the prefix when case is ignored, one per entry, in ascending
\* code point order, the smaller names before any larger matching name; once
\* the loop is over every matching entry has had its command.
C9_RestartsMatchingEntriesInSortedOrder ==
    /\ \A i \in 1..Len(restarts) :
           /\ SubSeq(restarts[i], 1, Len(SystemctlRestart)) = SystemctlRestart
           /\ ServiceOf(restarts[i]) \in Matching
    /\ \A i, j \in 1..Len(restarts) :
           i < j => StrLess(ServiceOf(restarts[i]), ServiceOf(restarts[j]))
    /\ \A r \in Restarted : \A m \in Matching \ Restarted : StrLess(r, m)
    /\ upc \in {"Version", "Report", "Done"} => Restarted = Matching
    /\ upc = "Restarting" => Restarted # Matching

\* C9 witness: the update over the directory of the worked example is done,
\* with the companion (capital O) restarted before the bambu service.
C9_Witness ==
    /\ upc = "Done"
    /\ dirList = <<SvcBambu, SvcOther, SvcCompanion>>
    /\ restarts = <<SystemctlRestart \o SvcCompanion, SystemctlRestart \o SvcBambu>>

\* C10: when no entry of the directory matches, DoUpdate raises: it issues no
\* restart command and never logs the update as successful; and it raises in
\* no other case.
C10_NoServicesFoundRaises ==
    /\ Matching = {} =>
           /\ upc \in {"Start", "Raised"}
           /\ restarts = <<>>
           /\ ~reported
    /\ upc = "Raised" => Matching = {}

\* C10 witness: DoUpdate raised over a directory of three entries, none of
\* them a service of this product.
C10_Witness ==
    /\ upc = "Raised"
    /\ dirList = <<SvcOther, SvcShort, SvcInfix>>


\* The number of restart commands issued for the service m.
RestartCount(m) ==
    Cardinality({i \in 1..Len(restarts) : ServiceOf(restarts[i]) = m})

\* C11: a return code that is not 0 does not end the restart loop: whatever the
\* return codes, the loop goes on while a matched entry has had no command, no
\* entry ever gets a second command, and after the loop every matched entry
\* has had exactly one.
C11_EveryMatchRestartedOnceWhateverTheCodes ==
    /\ Len(returnCodes) = Len(restarts)
    /\ Len(restarts) <= Cardinality(Matching)
    /\ \A m \in Matching : RestartCount(m) <= 1
    /\ (upc \notin {"Start", "Raised"} /\ Len(restarts) < Cardinality(Matching))
           => upc = "Restarting"
    /\ upc \in {"Version", "Report", "Done"} =>
           \A m \in Matching : RestartCount(m) = 1

\* C11 witness: the update is done over two matched entries, the first of
\* which failed to restart.
C11_Witness ==
    /\ upc = "Done"
    /\ returnCodes = <<1, 0>>
    /\ Len(restarts) = 2


\* The matched entries whose restart command returned a code other than 0.
FailedRestarts ==
    {ServiceOf(restarts[i]) : i \in {j \in 1..Len(restarts) : returnCodes[j] # 0}}

\* C12 as stated: DoUpdate returns a result that lists as failed the matched
\* entries whose command returned non-zero and as attempted every matched
\* entry.
C12_Original ==
    upc = "Done" =>
        /\ updResult # None
        /\ {updResult.failed[i] : i \in 1..Len(updResult.failed)} = FailedRestarts
        /\ {updResult.attempted[i] : i \in 1..Len(updResult.attempted)} = Matching

\* A call was made without linked accounts: None or an empty list.
Unlinked(call) ==
    call.connectedAccounts = None \/ Len(call.connectedAccounts[1]) = 0

\* The calls that were followed by a link warning.
WarnedCalls == {warnings[i].call : i \in 1..Len(warnings)}

\* C13 as stated: in every host a call logs a warning with the link for the
\* device's printer id exactly when it comes without linked accounts.
C13_Original ==
    /\ \A n \in 1..Len(calls) : (n \in WarnedCalls) <=> Unlinked(calls[n])
    /\ \A i \in 1..Len(warnings) :
           warnings[i].url = GetAddPrinterUrl(GetPrinterId(store))

\* C13 amended: that holds of BambuHost, with one warning per such call;
\* MoonrakerHost logs no link warning, with or without accounts.
C13_OnlyBambuWarnsWhenUnlinked ==
    /\ host = "bambu" =>
           /\ \A n \in 1..Len(calls) : (n \in WarnedCalls) <=> Unlinked(calls[n])
           /\ Len(warnings) = Cardinality(WarnedCalls)
           /\ \A i \in 1..Len(warnings) :
                  /\ warnings[i].url = GetAddPrinterUrl(GetPrinterId(store))
                  /\ SubSeq(warnings[i].url, 2, Len(warnings[i].url)) = relay.printerId[1]
    /\ host = "moonraker" => warnings = <<>>

\* C13 witness: a Bambu host was called with an empty list, then with one
\* account, and warned once, after the first call.
C13_Witness ==
    /\ host = "bambu"
    /\ Len(calls) = 2
    /\ calls[1].connectedAccounts = Some(<<>>)
    /\ calls[2].connectedAccounts = Some(<<"account1">>)
    /\ WarnedCalls = {1}


\* C14: PlaceUpdateScriptInRoot never raises; it returns False when opening,
\* writing, stat or chmod failed, and True only with the script in the home
\* directory, "cd <repoRoot>" directly followed by "./update.sh" among its
\* lines, and the owner's execute bit set on the file.
C14_PlaceReturnsFalseOnErrorTrueWithExecutableScript ==
    /\ placeResult \in {"none", "True", "False"}
    /\ spc = "Failed" <=> placeResult = "False"
    /\ spc = "Returned" <=> placeResult = "True"
    /\ placeResult = "True" =>
           /\ homeFile # None
           /\ \E i \in 1..(Len(homeFile[1].content) - 1) :
                  /\ homeFile[1].content[i] = <<"cd ">> \o repoRoot
                  /\ homeFile[1].content[i + 1] = <<"./update.sh">>
           /\ HasBit(homeFile[1].mode, S_IEXEC)

\* C14 witnesses: a call returned True over an old, non-executable script of
\* another repo root.
C14_Witness ==
    /\ placeResult = "True"
    /\ repoRoot = <<"/home/user/octoeverywhere">>
    /\ homeFile[1].content[3] = <<"cd ", "/home/user/octoeverywhere">>
    /\ stMode = Some(420)
    /\ homeFile[1].mode = 484


\* Both fields absent, or both present and valid.
StoreConsistent(s) ==
    \/ GetPrinterId(s) = None /\ GetPrivateKey(s) = None
    \/ IsPrinterIdValid(GetPrinterId(s)) /\ IsPrivateKeyValid(GetPrivateKey(s))

\* C15 as stated: a boot that found the store with both fields absent or
\* both valid never has it otherwise, in any state of the boot.
C15_Original == StoreConsistent(startStore) => StoreConsistent(store)

\* C15 amended: a boot never makes a field absent or invalid (each field is
\* as the boot found it, or valid), it writes the key only beside a valid id,
\* and after DoFirstTimeSetupIfNeeded returned both are valid; the one
\* inconsistent store a boot makes out of a consistent one is a valid id
\* with no key, on a pristine device, from the id write up to the key write.
C15_FieldsOnlyBecomeValid ==
    /\ GetPrinterId(store) = GetPrinterId(startStore)
           \/ IsPrinterIdValid(GetPrinterId(store))
    /\ GetPrivateKey(store) = GetPrivateKey(startStore)
           \/ IsPrivateKeyValid(GetPrivateKey(store))
    /\ GetPrivateKey(store) # GetPrivateKey(startStore)
           => IsPrinterIdValid(GetPrinterId(store))
    /\ setupDone =>
           /\ IsPrinterIdValid(GetPrinterId(store))
           /\ IsPrivateKeyValid(GetPrivateKey(store))
    /\ (StoreConsistent(startStore) /\ ~StoreConsistent(store)) =>
           /\ startStore = [id |-> None, key |-> None]
           /\ IsPrinterIdValid(GetPrinterId(store))
           /\ GetPrivateKey(store) = None
           /\ ~setupDone
           /\ pc \in {"SetupKey", "Except", "Flush", "Exited"}

\* C15 witness: a boot on a pristine device ended after its key write
\* failed, and left a valid id with no key in the store.
C15_Witness ==
    /\ pc = "Exited"
    /\ failure = "SetPrivateKey"
    /\ startStore = [id |-> None, key |-> None]
    /\ IsPrinterIdValid(GetPrinterId(store))
    /\ GetPrivateKey(store) = None


\* The store writes of a boot are confined to the fields the boot found
\* invalid, one write at most for each, and the store differs from the one
\* the boot found by those writes only.
WritesOnlyRejectedFields ==
    /\ Len(IdWrites) <= 1
    /\ Len(KeyWrites) <= 1
    /\ Len(writes) = Len(IdWrites) + Len(KeyWrites)
    /\ IdWrites # <<>> => ~IsPrinterIdValid(GetPrinterId(startStore))
    /\ KeyWrites # <<>> => ~IsPrivateKeyValid(GetPrivateKey(startStore))
    /\ GetPrinterId(store) =
           IF IdWrites = <<>> THEN GetPrinterId(startStore) ELSE IdWrites[1].value
    /\ GetPrivateKey(store) =
           IF KeyWrites = <<>> THEN GetPrivateKey(startStore) ELSE KeyWrites[1].value
    /\ GetPrinterId(store) = None => GetPrinterId(startStore) = None
    /\ GetPrivateKey(store) = None => GetPrivateKey(startStore) = None

\* No step, of a boot or from one boot to the next, changes a stored field
\* that is valid.
ValidFieldsAreKept ==
    /\ IsPrinterIdValid(GetPrinterId(store))
           => GetPrinterId(store') = GetPrinterId(store)
    /\ IsPrivateKeyValid(GetPrivateKey(store))
           => GetPrivateKey(store') = GetPrivateKey(store)

\* C16: the bootstrap writes a field only when the value read for it failed
\* validation, once per field per boot at most, and deletes nothing; so a
\* boot that finds both valid writes nothing, and valid values stay the same
\* over all later boots.
C16_WritesOnlyRejectedFieldsAndKeepsValidOnes ==
    /\ [](WritesOnlyRejectedFields)
    /\ [][ValidFieldsAreKept]_vars

\* C16 witness: a second boot got through the bootstrap without a write,
\* over the valid id and key that the first boot had left.
C16_Witness ==
    /\ boot = 2
    /\ setupDone
    /\ writes = <<>>
    /\ store = startStore
    /\ IsPrinterIdValid(GetPrinterId(store))
    /\ IsPrivateKeyValid(GetPrivateKey(store))


\* The Init of a supporting subsystem raised in this boot.
SubsystemFailed == \E n \in 1..Len(Subsystems) : failure = Subsystems[n]

\* C17 as stated: a boot in which a supporting subsystem failed to
\* initialise still starts the relay client.
C17_Original == (SubsystemFailed /\ pc = "Exited") => relay.started

\* C18 as stated: on a Moonraker device whose first boot found no valid
\* printer id, a boot that ends with a valid id and key in the store comes
\* with a call of the one-time setup hook, in that boot or before it.
C18_FirstValidIdentityComesWithTheHook ==
    ( /\ host = "moonraker"
      /\ ~IsPrinterIdValid(GetPrinterId(firstStore))
      /\ pc = "Exited"
      /\ IsPrinterIdValid(GetPrinterId(store))
      /\ IsPrivateKeyValid(GetPrivateKey(store)) )
    => hookRuns >= 1


\* C19 as stated: a process that ended on a failure, of the constructor or
\* of RunBlocking, has forwarded it to Sentry.
C19_Original ==
    (pc \in {"Exited", "CtorRaised"} /\ failure # "none") => sentry >= 1

\* C19 amended: an Exception raised inside RunBlocking (version lookup,
\* update manager files or secrets, identity persistence, first-run hook,
\* subsystem, relay) is forwarded exactly once to Sentry.Exception, which also
\* logs it, before the logs are flushed and the process exits; a failure of
\* the constructor is printed and re-raised, and never forwarded; a
\* KeyboardInterrupt or SystemExit out of the relay run loop is neither
\* forwarded nor followed by the flush.
C19_RunFailuresAreForwardedCtorFailuresOnlyPrinted ==
    /\ failure \in CtorFailures <=> pc = "CtorRaised"
    /\ pc = "CtorRaised" => (printed /\ sentry = 0 /\ ~flushed /\ outcome = "raised")
    /\ sentry <= 1
    /\ sentry = 1 <=> (/\ failure \notin CtorFailures \cup {"none"}
                       /\ pc \in {"Flush", "Exited"}
                       /\ relayRaised \in {"none", "Exception"})
    /\ (pc = "Exited" /\ failure # "none") =>
           IF relayRaised \in {"KeyboardInterrupt", "SystemExit"}
           THEN sentry = 0 /\ ~flushed /\ ~printed /\ outcome = "raised"
           ELSE sentry = 1 /\ flushed /\ ~printed /\ outcome = "returned"

\* C19 witnesses: a boot ended on a failed version lookup that was forwarded.
C19_Witness ==
    /\ pc = "Exited"
    /\ failure = "GetPluginVersion"
    /\ sentry = 1
    /\ flushed


\* One start request for each call, in order, with the call's session key.
OneStartRequestPerCall ==
    /\ Len(startRequests) = Len(calls)
    /\ \A n \in 1..Len(calls) : startRequests[n] = calls[n].octoKey

\* C20 as stated: in every host each call asks once for the start of the
\* downstream client, with that session's key, and no second client runs.
C20_Original ==
    /\ OneStartRequestPerCall
    /\ clientStarts <= 1

\* C20 amended: MoonrakerHost asks for the start of the Moonraker client once
\* in each call, with that call's octoKey, and the client is started by the
\* first request only; BambuHost asks for no start in its callback.
C20_MoonrakerRequestsStartPerSessionBambuNever ==
    /\ host = "moonraker" =>
           /\ OneStartRequestPerCall
           /\ clientStarts = (IF calls = <<>> THEN 0 ELSE 1)
           /\ clientRunning <=> calls # <<>>
    /\ host = "bambu" =>
           /\ startRequests = <<>>
           /\ clientStarts = 0
           /\ ~clientRunning

\* C20 witness: a Moonraker host saw two sessions with different keys, asked
\* for the start with each key, and one client was started.
C20_Witness ==
    /\ host = "moonraker"
    /\ Len(calls) = 2
    /\ startRequests = <<"octoKey1", "octoKey2">>
    /\ clientStarts = 1


\* C21 as stated: a run never ends reported as successful with some of the
\* matched services restarted and others failed to restart.
C21_NoPartialRestartReportedSuccessful ==
    ~ ( /\ upc = "Done"
        /\ reported
        /\ \E i \in 1..Len(returnCodes) : returnCodes[i] = 0
        /\ \E j \in 1..Len(returnCodes) : returnCodes[j] # 0 )


\* The restart commands a directory listing calls for, whatever else happens
\* in the run: one for each matching entry, in sorted order.
ExpectedRestarts ==
    LET found == SelectSeq(Sorted(dirList), MatchesPrefix)
    IN  [i \in 1..Len(found) |-> SystemctlRestart \o found[i]]

\* C22: the version is looked up only when every restart command has been
\* issued; the lookup issues none and cannot end the run, which goes on to
\* its report with the resolved version or with "Unknown", after the same
\* restart commands in both cases; DoUpdate raises only for an empty list of
\* services, before any restart.
C22_VersionLookupAfterRestartsAndNeverFatal ==
    /\ upc \in {"Version", "Report", "Done"} =>
           (restarts = ExpectedRestarts /\ restarts # <<>>)
    /\ pluginVersionStr # "Unknown" => upc \in {"Report", "Done"}
    /\ upc = "Raised" => (restarts = <<>> /\ foundOeServices = <<>> /\ ~reported)
    /\ upc = "Done" => (reported /\ pluginVersionStr \in {"Unknown", "1.0.0"})

\* C22 witness: a run ended with its report and the placeholder version
\* after restarting the two services of the listing.
C22_Witness ==
    /\ upc = "Done"
    /\ reported
    /\ pluginVersionStr = "Unknown"
    /\ dirList = <<SvcBare, SvcUpper>>
    /\ Len(restarts) = 2


\* C23 as stated: over the boots of a device the hook is called once at most,
\* and a boot that called it had written both the id and the key before.
C23_Original ==
    /\ hookRuns <= 1
    /\ hookCalls >= 1 => (Len(IdWrites) = 1 /\ Len(KeyWrites) = 1)

\* C23 amended: the hook is called once at most over the boots of a device,
\* and only by MoonrakerHost; the boot that calls it found no printer id,
\* has written a new one, and calls the hook after the private key block,
\* with a valid id and a valid key in the store; the key was written in that
\* boot too, unless the boot found a valid key beside the missing id.
C23_HookOnceAfterTheKeyBlock ==
    /\ hookRuns <= 1
    /\ hookCalls <= hookRuns
    /\ host = "bambu" => hookRuns = 0
    /\ pc \in {"Initializing", "ConfigLoaded", "VersionFound", "FirstTimeSetup",
               "SetupKey", "FirstRunHook", "CtorRaised"} => hookCalls = 0
    /\ hookCalls >= 1 =>
           /\ isFirstRun
           /\ GetPrinterId(startStore) = None
           /\ Len(IdWrites) = 1
           /\ GetPrinterId(store) = IdWrites[1].value
           /\ IsPrinterIdValid(GetPrinterId(store))
           /\ IsPrivateKeyValid(GetPrivateKey(store))
           /\ KeyWrites = <<>> <=> IsPrivateKeyValid(GetPrivateKey(startStore))
           /\ Len(KeyWrites) <= 1

\* C23 witness: the hook ran in the first boot, after both writes, and the
\* second boot got through the bootstrap without calling it again.
C23_Witness ==
    /\ host = "moonraker"
    /\ boot = 2
    /\ setupDone
    /\ firstStore = [id |-> None, key |-> None]
    /\ hookRuns = 1
    /\ hookCalls = 0

====
